---------------------------- MODULE Spec2Model ----------------------------
(***************************************************************************)
(* ClaudeAgentService (src/marker/services/claude_agent.py): one call of   *)
(* __call__ ("invoke"): images are saved to temp files, the prompt is      *)
(* built, the CLI is run in a bounded retry loop, and the temp files are   *)
(* removed in the finally block.                                           *)
(*                                                                         *)
(* Text is a sequence of one-character strings, so that lower() and the    *)
(* substring test of the error classification are computed, not assumed.   *)
(* A mapping (the structured output) is a set of <<key, value>> pairs; the *)
(* empty mapping is the empty set.                                         *)
(***************************************************************************)
EXTENDS Integers, Sequences, FiniteSets, TLC

VARIABLES
    maxRetries,     \* argument max_retries of the call
    retryWaitTime,  \* self.retry_wait_time
    nImages,        \* number of images handed to the call
    hasBlock,       \* whether a block (the metadata sink) was supplied
    pc,             \* position of the call in __call__
    tries,          \* loop variable of the retry loop
    tempPaths,      \* temp_paths, in the order the images were saved
    created,        \* every temp file the call has written
    tempStorage,    \* the files present in /tmp
    fullPrompt,     \* full_prompt, a sequence of lines
    response,       \* what the subprocess run of this attempt produced
    timeouts,       \* number of subprocess.run calls that timed out
    invocations,    \* number of subprocess.run calls started
    sleeps,         \* the durations passed to time.sleep, in order
    sink,           \* the update_metadata calls the block has accepted
    sinkException,  \* what block.update_metadata raised in this attempt
    removeAttempts, \* the paths os.remove was called with, in order
    removeFailed,   \* the paths for which os.remove raised OSError
    result,         \* the value __call__ returns
    otherPc,        \* position of a second, concurrent call of __call__
    otherImages,    \* number of images handed to the second call
    otherPaths,     \* temp_paths of the second call
    otherRemoved    \* number of os.remove calls the second call has made

vars == <<maxRetries, retryWaitTime, nImages, hasBlock, pc, tries, tempPaths,
          created, tempStorage, fullPrompt, response, timeouts, invocations,
          sleeps, sink, sinkException, removeAttempts, removeFailed, result,
          otherPc, otherImages, otherPaths, otherRemoved>>

inputs == <<maxRetries, retryWaitTime, nImages, hasBlock>>

\* the second call, of which only the handling of its temp files is followed
other == <<otherPc, otherImages, otherPaths, otherRemoved>>

(***************************************************************************)
(* Bounds of the model.                                                    *)
(***************************************************************************)
MaxRetries == 2
MaxImages == 2

\* The values of self.retry_wait_time the call is tried with.
RetryWaitTimes == {1, 3}

(***************************************************************************)
(* Text.                                                                   *)
(***************************************************************************)
UpperLetters == <<"A","B","C","D","E","F","G","H","I","J","K","L","M",
                  "N","O","P","Q","R","S","T","U","V","W","X","Y","Z">>
LowerLetters == <<"a","b","c","d","e","f","g","h","i","j","k","l","m",
                  "n","o","p","q","r","s","t","u","v","w","x","y","z">>

LowerChar(c) ==
    IF \E i \in 1..26 : UpperLetters[i] = c
    THEN LowerLetters[CHOOSE i \in 1..26 : UpperLetters[i] = c]
    ELSE c

\* str.lower()
Lower(s) == [i \in 1..Len(s) |-> LowerChar(s[i])]

\* sub in s
Contains(sub, s) ==
    \E i \in 0..(Len(s) - Len(sub)) : SubSeq(s, i + 1, i + Len(sub)) = sub

TextRate == <<"r","a","t","e">>
TextLimit == <<"l","i","m","i","t">>
TextUnknownCliError ==
    <<"U","n","k","n","o","w","n"," ","C","L","I"," ","e","r","r","o","r">>
TextCliErrorPrefix ==
    <<"C","l","a","u","d","e"," ","C","L","I"," ","e","r","r","o","r",":"," ">>

\* The stderr texts the CLI is let to print on a non-zero exit.
StderrNone == << >>
StderrRateLimitExceeded ==
    <<"R","a","t","e"," ","l","i","m","i","t"," ","e","x","c","e","e","d","e","d">>
StderrInvalidSchema ==
    <<"i","n","v","a","l","i","d"," ","s","c","h","e","m","a">>
StderrUpperLimit == <<"L","I","M","I","T">>
StderrGenerate == <<"G","e","n","e","R","A","T","E">>
Stderrs == {StderrNone, StderrRateLimitExceeded, StderrInvalidSchema,
            StderrUpperLimit, StderrGenerate}

(***************************************************************************)
(* The responses of the external process.                                  *)
(***************************************************************************)
EmptyMap == {}
Payloads == {EmptyMap, {<<"answer", 1>>}, {<<"answer", 2>>}}

UsageFields == {"input_tokens", "cache_creation_input_tokens",
                "cache_read_input_tokens", "output_tokens"}
NoUsage == [f \in UsageFields |-> 0]
\* The usage breakdowns the CLI is let to report: none, one token read from
\* the cache and nothing else, and 10 input and 5 output tokens.
Usages ==
    {NoUsage}
    \cup {[NoUsage EXCEPT !["cache_read_input_tokens"] = 1]}
    \cup {[NoUsage EXCEPT !["input_tokens"] = 10, !["output_tokens"] = 5]}

\* kind:  "timeout"  subprocess.run raised TimeoutExpired
\*        "oserror"  subprocess.run raised OSError (the CLI could not be run)
\*        "exit"     the process ended with a non-zero return code
\*        "stdout"   the process ended with return code 0
\* shape: "notjson"    stdout is not JSON
\*        "nonobject"  stdout is JSON, but not an object
\*        "envelope"   stdout is a JSON object
Blank(kind) ==
    [kind |-> kind, stderr |-> StderrNone, shape |-> "none", is_error |-> FALSE,
     structured_output |-> EmptyMap, usage |-> NoUsage]

NoResponse == Blank("none")

Responses ==
    {Blank("timeout"), Blank("oserror")}
    \cup {[Blank("exit") EXCEPT !.stderr = e] : e \in Stderrs}
    \cup {[Blank("stdout") EXCEPT !.shape = s] : s \in {"notjson", "nonobject"}}
    \cup {[Blank("stdout") EXCEPT !.shape = "envelope", !.is_error = b,
                                  !.structured_output = p, !.usage = u] :
            b \in BOOLEAN, p \in Payloads, u \in Usages}

(***************************************************************************)
(* _save_images_to_temp, _build_prompt_with_images                         *)
(***************************************************************************)
Range(seq) == {seq[i] : i \in 1..Len(seq)}

\* one file name for every image of every call
Uuid4FixedName(used) == 1

\* uuid.uuid4().hex: a name no file has yet
Uuid4(used) == CHOOSE n \in 1..(Cardinality(used) + 1) : n \notin used

\* The caller's prompt, as lines of text.
Prompt == << <<"prompt", 0, 0>> >>

\* the images numbered by the index of enumerate as it is, from 0
ImageRefFromZero(i, path) == <<"image", i, path>>

\* f"- Image {i+1}: {path}", i the 0-based index of enumerate
ImageRef(i, path) == <<"image", i + 1, path>>

BuildPromptWithImages(prompt, image_paths) ==
    IF image_paths = << >>
    THEN prompt
    ELSE << <<"header", 0, 0>> >>
         \o [j \in 1..Len(image_paths) |-> ImageRef(j - 1, image_paths[j])]
         \o << <<"blank", 0, 0>> >>
         \o prompt

(***************************************************************************)
(* _call_cli: what the call of the CLI returns or raises for a response.   *)
(***************************************************************************)
Raise(exc, msg) ==
    [raised |-> exc, message |-> msg, structured_output |-> EmptyMap,
     total_tokens |-> 0]

\* result.stderr or "Unknown CLI error"
ErrorMsg(stderr) == IF stderr # << >> THEN stderr ELSE TextUnknownCliError

\* the cache reads left out of the sum
TotalTokensNoCacheRead(usage) ==
    usage["input_tokens"] + usage["cache_creation_input_tokens"]
    + usage["output_tokens"]

TotalTokens(usage) ==
    usage["input_tokens"] + usage["cache_creation_input_tokens"]
    + usage["cache_read_input_tokens"] + usage["output_tokens"]

CallCli(r) ==
    IF r.kind = "timeout" THEN Raise("TimeoutExpired", << >>)
    ELSE IF r.kind = "oserror" THEN Raise("OSError", << >>)
    ELSE IF r.kind = "exit"
    THEN Raise("RuntimeError", TextCliErrorPrefix \o ErrorMsg(r.stderr))
    ELSE IF r.shape = "notjson" THEN Raise("JSONDecodeError", << >>)
    ELSE IF r.shape = "nonobject" THEN Raise("AttributeError", << >>)
    ELSE [raised |-> "none", message |-> << >>,
          structured_output |-> r.structured_output,
          total_tokens |-> TotalTokens(r.usage)]

(***************************************************************************)
(* The retry loop of __call__: what each branch does with the loop.        *)
(***************************************************************************)
Break == [ctl |-> "break", wait |-> 0]
Continue == [ctl |-> "continue", wait |-> 0]
FallThrough == [ctl |-> "fall", wait |-> 0]
ReturnResult == [ctl |-> "return", wait |-> 0]
Sleep(wait_time) == [ctl |-> "sleep", wait |-> wait_time]

\* the retry budget taken for the number of attempts
TotalTriesNoFirstAttempt(max_retries) == max_retries

TotalTries(max_retries) == max_retries + 1

\* usage reported whether or not a block was given
ShouldReportNoBlockTest(block, total_tokens) == total_tokens > 0

\* if block and total_tokens > 0
ShouldReport(block, total_tokens) == block /\ total_tokens > 0

UsageReport(total_tokens) ==
    [llm_tokens_used |-> total_tokens, llm_request_count |-> 1]

\* the loop left on an empty response instead of going on
OnResultEmptyGivesUp(result_dict, k, total_tries) ==
    IF result_dict # EmptyMap THEN ReturnResult ELSE Break

\* the try body after _call_cli has returned and the usage was tracked
OnResult(result_dict, k, total_tries) ==
    IF result_dict # EmptyMap THEN ReturnResult
    ELSE IF k < total_tries THEN Continue
    ELSE FallThrough

\* a constant wait instead of the linear backoff
TimeoutWaitConstant(k, w) == w

TimeoutWait(k, w) == k * w

\* the backoff taken on the last attempt too
OnTimeoutExpiredAlwaysSleeps(k, total_tries, w) == Sleep(TimeoutWait(k, w))

\* except subprocess.TimeoutExpired
OnTimeoutExpired(k, total_tries, w) ==
    IF k = total_tries THEN Break ELSE Sleep(TimeoutWait(k, w))

\* a parse failure retried like an empty response
OnJSONDecodeErrorRetried == Continue

\* except json.JSONDecodeError
OnJSONDecodeError == Break

\* only "rate" looked for
IsRateLimitRateOnly(error_str) == Contains(TextRate, error_str)

\* "rate" in error_str or "limit", which is true of every text
IsRateLimitAlways(error_str) == Contains(TextRate, error_str) \/ TextLimit # << >>

IsRateLimit(error_str) ==
    Contains(TextRate, error_str) \/ Contains(TextLimit, error_str)

RateLimitWait(k, w) == k * w

\* except RuntimeError as e
OnRuntimeError(e, k, total_tries, w) ==
    LET error_str == Lower(e)
    IN  IF IsRateLimit(error_str)
        THEN IF k = total_tries THEN Break ELSE Sleep(RateLimitWait(k, w))
        ELSE Break

\* any other exception taken for an empty response and retried
OnExceptionRetried == Continue

\* except Exception
OnException == Break

\* the except clauses in the order of the try statement: the first whose
\* class the exception is an instance of handles it
Except(e, k, total_tries, w) ==
    IF e.raised = "TimeoutExpired" THEN OnTimeoutExpired(k, total_tries, w)
    ELSE IF e.raised = "JSONDecodeError" THEN OnJSONDecodeError
    ELSE IF e.raised = "RuntimeError" THEN OnRuntimeError(e.message, k, total_tries, w)
    ELSE OnException

\* no exception
NoException == [raised |-> "none", message |-> << >>]

\* What block.update_metadata can raise: the block is the caller's, so an
\* exception of any class, here one of each class the except clauses tell
\* apart, a RuntimeError with and without "rate" or "limit" in its text.
SinkExceptions ==
    {[raised |-> c, message |-> << >>] :
        c \in {"TimeoutExpired", "JSONDecodeError", "ValueError"}}
    \cup {[raised |-> "RuntimeError", message |-> m] :
            m \in {StderrRateLimitExceeded, StderrInvalidSchema}}

(***************************************************************************)
(* The call as a state machine.                                            *)
(***************************************************************************)
Init ==
    /\ maxRetries \in 0..MaxRetries
    /\ retryWaitTime \in RetryWaitTimes
    /\ nImages \in 0..MaxImages
    /\ hasBlock \in BOOLEAN
    /\ pc = "start"
    /\ tries = 0
    /\ tempPaths = << >>
    /\ created = {}
    /\ tempStorage = {}
    /\ fullPrompt = << >>
    /\ response = NoResponse
    /\ timeouts = 0
    /\ invocations = 0
    /\ sleeps = << >>
    /\ sink = << >>
    /\ sinkException = NoException
    /\ removeAttempts = << >>
    /\ removeFailed = {}
    /\ result = EmptyMap
    /\ otherPc = "absent"
    /\ otherImages = 0
    /\ otherPaths = << >>
    /\ otherRemoved = 0

\* the for statement takes the next value of range(1, total_tries + 1), or the
\* loop ends and __call__ goes on to "return {}"
NextIteration ==
    IF tries < TotalTries(maxRetries)
    THEN /\ tries' = tries + 1
         /\ pc' = "loop"
         /\ UNCHANGED result
    ELSE /\ pc' = "cleanup"
         /\ result' = EmptyMap
         /\ UNCHANGED tries

\* what a branch of the loop body does to the call
Control(c, payload) ==
    CASE c.ctl = "return" ->
            /\ pc' = "cleanup"
            /\ result' = payload
               /\ UNCHANGED <<tries, sleeps>>
      [] c.ctl = "break" ->
            /\ pc' = "cleanup"
            /\ result' = EmptyMap
               /\ UNCHANGED <<tries, sleeps>>
      [] c.ctl = "sleep" ->
            /\ pc' = "sleeping"
            /\ sleeps' = Append(sleeps, c.wait)
            /\ UNCHANGED <<tries, result>>
      [] OTHER ->
            /\ NextIteration
            /\ UNCHANGED sleeps

\* lines 127-137: the defaults, and whether there are images to save
Start ==
    /\ pc = "start"
    /\ pc' = IF nImages > 0 THEN "save" ELSE "build"
    /\ UNCHANGED <<inputs, other, removeAttempts, removeFailed, tries, tempPaths, created, tempStorage, fullPrompt,
                   response, timeouts, invocations, sleeps, sink, sinkException, result>>

\* one round of the loop of _save_images_to_temp, img.save succeeding
SaveImage ==
    /\ pc = "save"
    /\ LET temp_path == Uuid4(tempStorage \cup created \cup Range(otherPaths))
       IN  /\ tempStorage' = tempStorage \cup {temp_path}
           /\ created' = created \cup {temp_path}
           /\ tempPaths' = Append(tempPaths, temp_path)
    /\ pc' = IF Len(tempPaths) + 1 = nImages THEN "build" ELSE "save"
    /\ UNCHANGED <<inputs, other, removeAttempts, removeFailed, tries, fullPrompt, response, timeouts, invocations,
                   sleeps, sink, sinkException, result>>

\* img.save raises: _save_images_to_temp is called before the try statement,
\* so the exception leaves __call__
SaveImageFails ==
    /\ pc = "save"
    /\ pc' = "raised"
    /\ UNCHANGED <<inputs, other, removeAttempts, removeFailed, tries, tempPaths, created, tempStorage, fullPrompt,
                   response, timeouts, invocations, sleeps, sink, sinkException, result>>

\* lines 139-145: the prompt is built and the loop is entered
BuildPrompt ==
    /\ pc = "build"
    /\ fullPrompt' = BuildPromptWithImages(Prompt, tempPaths)
    /\ NextIteration
    /\ UNCHANGED <<inputs, other, removeAttempts, removeFailed, tempPaths, created, tempStorage, response, timeouts,
                   invocations, sleeps, sink, sinkException>>

\* subprocess.run is started
Invoke ==
    /\ pc = "loop"
    /\ pc' = "running"
    /\ invocations' = invocations + 1
    /\ response' = NoResponse
    /\ sinkException' = NoException
    /\ UNCHANGED <<inputs, other, removeAttempts, removeFailed, tries, tempPaths, created, tempStorage, fullPrompt,
                   timeouts, sleeps, sink, result>>

Finished(r) ==
    /\ pc = "running"
    /\ response' = r
    /\ timeouts' = IF r.kind = "timeout" THEN timeouts + 1 ELSE timeouts
    /\ UNCHANGED <<inputs, other, removeAttempts, removeFailed, tempPaths, created, tempStorage, fullPrompt,
                   invocations>>

\* _call_cli returns, the block accepts the usage (if any is reported)
TryBody ==
    \E r \in Responses :
        LET got == CallCli(r)
        IN  /\ got.raised = "none"
            /\ Finished(r)
            /\ sink' = IF ShouldReport(hasBlock, got.total_tokens)
                       THEN Append(sink, UsageReport(got.total_tokens))
                       ELSE sink
            /\ UNCHANGED sinkException
            /\ Control(OnResult(got.structured_output, tries,
                                TotalTries(maxRetries)),
                       got.structured_output)

\* _call_cli returns, block.update_metadata raises: the call is inside the
\* try statement, so the exception goes to the except clause of its class
UpdateMetadataRaises ==
    \E r \in Responses, e \in SinkExceptions :
        LET got == CallCli(r)
        IN  /\ got.raised = "none"
            /\ ShouldReport(hasBlock, got.total_tokens)
            /\ Finished(r)
            /\ UNCHANGED sink
            /\ sinkException' = e
            /\ Control(Except(e, tries, TotalTries(maxRetries), retryWaitTime),
                       EmptyMap)

ExceptTimeoutExpired ==
    \E r \in Responses :
        /\ CallCli(r).raised = "TimeoutExpired"
        /\ Finished(r)
        /\ UNCHANGED <<sink, sinkException>>
        /\ Control(OnTimeoutExpired(tries, TotalTries(maxRetries),
                                    retryWaitTime), EmptyMap)

ExceptJSONDecodeError ==
    \E r \in Responses :
        /\ CallCli(r).raised = "JSONDecodeError"
        /\ Finished(r)
        /\ UNCHANGED <<sink, sinkException>>
        /\ Control(OnJSONDecodeError, EmptyMap)

ExceptRuntimeError ==
    \E r \in Responses :
        LET got == CallCli(r)
        IN  /\ got.raised = "RuntimeError"
            /\ Finished(r)
            /\ UNCHANGED <<sink, sinkException>>
            /\ Control(OnRuntimeError(got.message, tries,
                                      TotalTries(maxRetries), retryWaitTime),
                       EmptyMap)

ExceptException ==
    \E r \in Responses :
        /\ CallCli(r).raised \notin {"none", "TimeoutExpired", "JSONDecodeError",
                                     "RuntimeError"}
        /\ Finished(r)
        /\ UNCHANGED <<sink, sinkException>>
        /\ Control(OnException, EmptyMap)

\* time.sleep returns and the loop goes on
Wake ==
    /\ pc = "sleeping"
    /\ NextIteration
    /\ UNCHANGED <<inputs, other, removeAttempts, removeFailed, tempPaths, created, tempStorage, fullPrompt,
                   response, timeouts, invocations, sleeps, sink, sinkException>>

\* one try statement around the whole loop: the first OSError ends the loop
CleanupRemainingStopAtFailure(paths, attempted, failed) ==
    IF failed # {} THEN << >> ELSE SubSeq(paths, Len(attempted) + 1, Len(paths))

\* the paths the loop of _cleanup_temp_files has still to call os.remove
\* with: the try statement is inside the loop, so an OSError does not end it
CleanupRemaining(paths, attempted, failed) ==
    SubSeq(paths, Len(attempted) + 1, Len(paths))

\* the temp files removed in the retry handlers too, ahead of the backoff
RemoveTempFileInLoop ==
    /\ pc \in {"cleanup", "sleeping"}
    /\ CleanupRemaining(tempPaths, removeAttempts, removeFailed) # << >>
    /\ LET path == Head(CleanupRemaining(tempPaths, removeAttempts, removeFailed))
       IN  /\ removeAttempts' = Append(removeAttempts, path)
           /\ tempStorage' = tempStorage \ {path}
    /\ UNCHANGED <<inputs, other, pc, tries, tempPaths, created, fullPrompt,
                   response, timeouts, invocations, sleeps, sink, sinkException,
                   removeFailed, result>>

\* the finally block, one round of the loop of _cleanup_temp_files:
\* os.remove deletes the file, or raises OSError, which is logged and leaves
\* the file
RemoveTempFile ==
    /\ pc = "cleanup"
    /\ CleanupRemaining(tempPaths, removeAttempts, removeFailed) # << >>
    /\ LET path == Head(CleanupRemaining(tempPaths, removeAttempts, removeFailed))
       IN  /\ removeAttempts' = Append(removeAttempts, path)
           /\ \/ /\ tempStorage' = tempStorage \ {path}
                 /\ UNCHANGED removeFailed
              \/ /\ removeFailed' = removeFailed \cup {path}
                 /\ UNCHANGED tempStorage
    /\ response' = NoResponse
    /\ sinkException' = NoException
    /\ UNCHANGED <<inputs, other, pc, tries, tempPaths, created, fullPrompt,
                   timeouts, invocations, sleeps, sink, result>>

\* the loop of _cleanup_temp_files is over and __call__ returns
Return ==
    /\ pc = "cleanup"
    /\ CleanupRemaining(tempPaths, removeAttempts, removeFailed) = << >>
    /\ pc' = "returned"
    /\ response' = NoResponse
    /\ sinkException' = NoException
    /\ UNCHANGED <<inputs, other, tries, tempPaths, created, tempStorage,
                   fullPrompt, timeouts, invocations, sleeps, sink,
                   removeAttempts, removeFailed, result>>

Next ==
    \/ Start
    \/ SaveImage
    \/ SaveImageFails
    \/ BuildPrompt
    \/ Invoke
    \/ TryBody
    \/ UpdateMetadataRaises
    \/ ExceptTimeoutExpired
    \/ ExceptJSONDecodeError
    \/ ExceptRuntimeError
    \/ ExceptException
    \/ Wake
    \/ RemoveTempFile
    \/ Return

Spec == Init /\ [][Next]_vars

(***************************************************************************)
(* Two calls of __call__ at once, from different callers.  The calls share *)
(* nothing but /tmp, so of the second call only the steps that touch /tmp  *)
(* are followed: _save_images_to_temp and _cleanup_temp_files, with its    *)
(* retry loop in between.                                                  *)
(***************************************************************************)
call == <<inputs, pc, tries, tempPaths, created, fullPrompt, response,
          timeouts, invocations, sleeps, sink, sinkException, removeAttempts,
          removeFailed, result>>

\* The inputs of the first call are narrowed to one retry, one wait time and a
\* block to report to, which is enough for every step of __call__ to occur;
\* the two calls together hold at most MaxImages + 1 images.
InitConcurrent ==
    /\ maxRetries = 1
    /\ retryWaitTime = 1
    /\ nImages \in 1..MaxImages
    /\ hasBlock = TRUE
    /\ pc = "start"
    /\ tries = 0
    /\ tempPaths = << >>
    /\ created = {}
    /\ tempStorage = {}
    /\ fullPrompt = << >>
    /\ response = NoResponse
    /\ timeouts = 0
    /\ invocations = 0
    /\ sleeps = << >>
    /\ sink = << >>
    /\ sinkException = NoException
    /\ removeAttempts = << >>
    /\ removeFailed = {}
    /\ result = EmptyMap
    /\ otherPc = "save"
    /\ otherImages \in 1..(MaxImages + 1 - nImages)
    /\ otherPaths = << >>
    /\ otherRemoved = 0

\* one round of the loop of _save_images_to_temp in the second call
OtherSaveImage ==
    /\ otherPc = "save"
    /\ LET temp_path == Uuid4(tempStorage \cup created \cup Range(otherPaths))
       IN  /\ tempStorage' = tempStorage \cup {temp_path}
           /\ otherPaths' = Append(otherPaths, temp_path)
    /\ otherPc' = IF Len(otherPaths) + 1 = otherImages THEN "busy" ELSE "save"
    /\ UNCHANGED <<call, otherImages, otherRemoved>>

\* img.save raises in the second call
OtherSaveImageFails ==
    /\ otherPc = "save"
    /\ otherPc' = "raised"
    /\ UNCHANGED <<call, tempStorage, otherImages, otherPaths, otherRemoved>>

\* the second call leaves its retry loop and enters the finally block
OtherLeavesLoop ==
    /\ otherPc = "busy"
    /\ otherPc' = "cleanup"
    /\ UNCHANGED <<call, tempStorage, otherImages, otherPaths, otherRemoved>>

\* one round of the loop of _cleanup_temp_files in the second call
OtherRemoveTempFile ==
    /\ otherPc = "cleanup"
    /\ otherRemoved < Len(otherPaths)
    /\ otherRemoved' = otherRemoved + 1
    /\ \/ tempStorage' = tempStorage \ {otherPaths[otherRemoved + 1]}
       \/ UNCHANGED tempStorage
    /\ UNCHANGED <<call, otherPc, otherImages, otherPaths>>

\* the second call returns
OtherReturn ==
    /\ otherPc = "cleanup"
    /\ otherRemoved = Len(otherPaths)
    /\ otherPc' = "returned"
    /\ UNCHANGED <<call, tempStorage, otherImages, otherPaths, otherRemoved>>

NextConcurrent ==
    \/ Next
    \/ OtherSaveImage
    \/ OtherSaveImageFails
    \/ OtherLeavesLoop
    \/ OtherRemoveTempFile
    \/ OtherReturn

SpecConcurrent == InitConcurrent /\ [][NextConcurrent]_vars

(***************************************************************************)
(* What the properties below read off a response, stated from the          *)
(* response alone.                                                         *)
(***************************************************************************)
SameLetter(c, d) ==
    \/ c = d
    \/ \E i \in 1..26 : {c, d} = {UpperLetters[i], LowerLetters[i]}

\* word occurs in s, whatever the case of the letters of s
Mentions(word, s) ==
    \E i \in 0..(Len(s) - Len(word)) :
        \A j \in 1..Len(word) : SameLetter(word[j], s[i + j])

TimedOut(r) == r.kind = "timeout"
RateLimitExit(r) ==
    r.kind = "exit" /\ (Mentions(TextRate, r.stderr) \/ Mentions(TextLimit, r.stderr))
OtherExit(r) ==
    r.kind = "exit" /\ ~Mentions(TextRate, r.stderr) /\ ~Mentions(TextLimit, r.stderr)
Malformed(r) == r.kind = "stdout" /\ r.shape \in {"notjson", "nonobject"}
Envelope(r) == r.kind = "stdout" /\ r.shape = "envelope"
EmptyEnvelope(r) == Envelope(r) /\ r.structured_output = {}
PayloadEnvelope(r) == Envelope(r) /\ r.structured_output # {}

SumOfCounters(u) ==
    LET Sum[S \in SUBSET UsageFields] ==
            IF S = {} THEN 0
            ELSE LET f == CHOOSE x \in S : TRUE IN u[f] + Sum[S \ {f}]
    IN  Sum[UsageFields]

\* block.update_metadata raised in the attempt
sinkRaised == sinkException.raised # "none"

\* an exception the except clauses back off from and retry: a TimeoutExpired,
\* or a RuntimeError whose text mentions "rate" or "limit"
Retried(e) ==
    \/ e.raised = "TimeoutExpired"
    \/ /\ e.raised = "RuntimeError"
       /\ Mentions(TextRate, e.message) \/ Mentions(TextLimit, e.message)

LastAttempt == tries = maxRetries + 1
Ended == pc \in {"cleanup", "returned"}
\* an attempt has just ended: the step that takes the run's response
AttemptEnds == pc = "running" /\ pc' # "running"
\* nothing more is run or slept, and the result stands, once the loop is left
Leaves(res) ==
    /\ pc' \in {"cleanup", "returned"}
    /\ result' = res
    /\ invocations' = invocations
    /\ sleeps' = sleeps

(***************************************************************************)
(* C1: with maxRetries = n >= 0 the external process is run at most n + 1  *)
(* times, one run per round of the loop and never two at once (the runs    *)
(* started are the rounds begun); when every run timed out, there were     *)
(* exactly n + 1 runs and the call returns the empty mapping.              *)
(***************************************************************************)
C1_AtMostNPlusOneRuns ==
    /\ invocations <= maxRetries + 1
    /\ invocations = IF pc = "loop" THEN tries - 1 ELSE tries
    /\ timeouts <= invocations
    /\ (Ended /\ timeouts = invocations) =>
            (invocations = maxRetries + 1 /\ result = EmptyMap)

C1_Witness ==
    pc = "returned" /\ maxRetries = 2 /\ timeouts = 3 /\ invocations = 3
    /\ result = EmptyMap

(***************************************************************************)
(* C2: a usage report is forwarded only for an attempt with a  *)
(* non-empty payload, so a call that returns the empty mapping leaves the  *)
(* sink unchanged, and a call forwards at most one report.                 *)
(***************************************************************************)
C2_ReportOnlyWithPayload ==
    /\ Len(sink) <= 1
    /\ (Ended /\ result = EmptyMap) => sink = << >>

(***************************************************************************)
(* C3: every temp file the call created is gone from temp storage once the *)
(* call has given control back to the caller, whether it returned or       *)
(* raised.                                                                 *)
(***************************************************************************)
C3_TempFilesGoneAfterCall ==
    pc \in {"returned", "raised"} => created \cap tempStorage = {}

(***************************************************************************)
(* C4: no error leaves the call: it always returns a mapping.              *)
(***************************************************************************)
C4_NeverRaises == pc # "raised"

(***************************************************************************)
(* C5: when attempt k ends in a non-zero exit whose stderr mentions "rate" *)
(* or "limit" (in any case) and k is not the last attempt, the call sleeps *)
(* once, for k * retryWaitTime, and then starts attempt k + 1; when k is   *)
(* the last attempt it does not sleep, runs nothing more and returns the   *)
(* empty mapping.                                                          *)
(***************************************************************************)
C5_RateLimitBackoff ==
    [][ /\ (AttemptEnds /\ RateLimitExit(response')) =>
              IF ~LastAttempt
              THEN /\ pc' = "sleeping"
                   /\ sleeps' = Append(sleeps, tries * retryWaitTime)
                   /\ tries' = tries
                   /\ invocations' = invocations
              ELSE Leaves(EmptyMap) /\ pc' = "cleanup"
        /\ (pc = "sleeping" /\ RateLimitExit(response)) =>
              /\ pc' = "loop"
              /\ tries' = tries + 1
              /\ sleeps' = sleeps
              /\ invocations' = invocations
        /\ (pc = "loop" /\ RateLimitExit(response)) =>
              /\ pc' = "running"
              /\ invocations' = tries
              /\ sleeps' = sleeps
        /\ Ended => Leaves(result)
      ]_vars

C5_Witness ==
    /\ pc = "loop"
    /\ response.kind = "exit"
    /\ response.stderr = StderrUpperLimit
    /\ tries = 3
    /\ retryWaitTime = 3
    /\ sleeps[Len(sleeps)] = 6

(***************************************************************************)
(* C6: a non-zero exit whose stderr mentions neither "rate" nor "limit"    *)
(* ends the call on any attempt: no sleep and no further run follows, and  *)
(* the call returns the empty mapping.                                     *)
(***************************************************************************)
C6_OtherExitIsTerminal ==
    [][ /\ (AttemptEnds /\ OtherExit(response')) =>
              Leaves(EmptyMap) /\ pc' = "cleanup"
        /\ Ended => Leaves(result)
      ]_vars

C6_Witness ==
    /\ pc = "cleanup"
    /\ response.kind = "exit"
    /\ response.stderr = StderrInvalidSchema
    /\ tries = 1
    /\ maxRetries = 2

(***************************************************************************)
(* C7: when attempt k times out and k is not the last attempt, the call    *)
(* sleeps for k * retryWaitTime and then starts attempt k + 1; when k is   *)
(* the last attempt it stops without sleeping and returns the empty        *)
(* mapping.                                                                *)
(***************************************************************************)
C7_TimeoutBackoff ==
    [][ /\ (AttemptEnds /\ TimedOut(response')) =>
              IF ~LastAttempt
              THEN /\ pc' = "sleeping"
                   /\ sleeps' = Append(sleeps, tries * retryWaitTime)
                   /\ tries' = tries
                   /\ invocations' = invocations
              ELSE Leaves(EmptyMap) /\ pc' = "cleanup"
        /\ (pc = "sleeping" /\ TimedOut(response)) =>
              /\ pc' = "loop"
              /\ tries' = tries + 1
              /\ sleeps' = sleeps
              /\ invocations' = invocations
        /\ (pc = "loop" /\ TimedOut(response)) =>
              /\ pc' = "running"
              /\ invocations' = tries
              /\ sleeps' = sleeps
        /\ Ended => Leaves(result)
      ]_vars

C7_Witness ==
    /\ pc = "loop"
    /\ TimedOut(response)
    /\ tries = 3
    /\ retryWaitTime = 3
    /\ sleeps[Len(sleeps)] = 6

(***************************************************************************)
(* C8: when attempt k returns an envelope with an empty        *)
(* payload and k is not the last attempt, attempt k + 1 is started with no *)
(* sleep in between; when k is the last attempt the call returns the empty *)
(* mapping.                                                                *)
(***************************************************************************)
C8_EmptyPayloadRetried ==
    [][ /\ (AttemptEnds /\ EmptyEnvelope(response')) =>
              IF ~LastAttempt
              THEN /\ pc' = "loop"
                   /\ tries' = tries + 1
                   /\ sleeps' = sleeps
              ELSE Leaves(EmptyMap) /\ pc' = "cleanup"
        /\ (pc = "loop" /\ EmptyEnvelope(response)) =>
              /\ pc' = "running"
              /\ invocations' = tries
              /\ sleeps' = sleeps
      ]_vars

(***************************************************************************)
(* C9, as claimed: when an attempt returns a non-empty payload, the call   *)
(* returns exactly that payload and runs nothing more; with a sink and a   *)
(* positive sum of the four usage counters exactly one report, of that sum *)
(* and request count 1, is forwarded for the attempt, and none without a   *)
(* sink or with a sum of zero.                                             *)
(***************************************************************************)
C9_PayloadReturned ==
    [][ /\ (AttemptEnds /\ PayloadEnvelope(response')) =>
              /\ Leaves(response'.structured_output)
              /\ pc' = "cleanup"
              /\ sink' = IF hasBlock /\ SumOfCounters(response'.usage) > 0
                         THEN Append(sink, [llm_tokens_used |-> SumOfCounters(response'.usage),
                                            llm_request_count |-> 1])
                         ELSE sink
        /\ Ended => Leaves(result) /\ sink' = sink
      ]_vars

(***************************************************************************)
(* C9, amended: the same, unless forwarding the report to the sink raises; *)
(* then no report is recorded and the payload is not returned: after a     *)
(* TimeoutExpired, or a RuntimeError whose text mentions "rate" or         *)
(* "limit", on an attempt k that is not the last, the call sleeps          *)
(* k * retryWaitTime and starts attempt k + 1; after any other exception,  *)
(* or on the last attempt, it runs nothing more and returns the empty      *)
(* mapping.                                                                *)
(***************************************************************************)
C9_PayloadReturnedUnlessSinkRaises ==
    [][ /\ (AttemptEnds /\ PayloadEnvelope(response')) =>
              IF ~sinkRaised'
              THEN /\ Leaves(response'.structured_output)
                   /\ pc' = "cleanup"
                   /\ sink' = IF hasBlock /\ SumOfCounters(response'.usage) > 0
                              THEN Append(sink,
                                     [llm_tokens_used |-> SumOfCounters(response'.usage),
                                      llm_request_count |-> 1])
                              ELSE sink
              ELSE /\ sink' = sink
                   /\ IF Retried(sinkException') /\ ~LastAttempt
                      THEN /\ pc' = "sleeping"
                           /\ sleeps' = Append(sleeps, tries * retryWaitTime)
                           /\ tries' = tries
                           /\ invocations' = invocations
                      ELSE Leaves(EmptyMap) /\ pc' = "cleanup"
        /\ (pc = "sleeping" /\ PayloadEnvelope(response)) =>
              /\ pc' = "loop"
              /\ tries' = tries + 1
              /\ sleeps' = sleeps
              /\ invocations' = invocations
        /\ Ended => Leaves(result) /\ sink' = sink
      ]_vars

C9_Witness ==
    /\ pc = "cleanup"
    /\ PayloadEnvelope(response)
    /\ response.usage["input_tokens"] = 10
    /\ response.usage["output_tokens"] = 5
    /\ result = {<<"answer", 2>>}
    /\ sink = <<[llm_tokens_used |-> 15, llm_request_count |-> 1]>>

(***************************************************************************)
(* C10: an attempt whose stdout cannot be read as an envelope ends the     *)
(* call: no sleep and no further run follows on the attempts that remain,  *)
(* and the call returns the empty mapping.                                 *)
(***************************************************************************)
C10_MalformedIsTerminal ==
    [][ /\ (AttemptEnds /\ Malformed(response')) =>
              Leaves(EmptyMap) /\ pc' = "cleanup"
        /\ Ended => Leaves(result)
      ]_vars

C10_Witness ==
    /\ pc = "cleanup"
    /\ response.kind = "stdout"
    /\ response.shape = "notjson"
    /\ tries = 1
    /\ maxRetries = 2

(***************************************************************************)
(* The states of the per-call state machine, read off the position of the  *)
(* call: Idle before the first run, Invoking while a run is due or under   *)
(* way, RetryableFailure while the call backs off, and the two terminal    *)
(* states once the loop is left.                                           *)
(***************************************************************************)
MachineState ==
    CASE pc \in {"start", "save", "build"} -> "Idle"
      [] pc \in {"loop", "running"} -> "Invoking"
      [] pc = "sleeping" -> "RetryableFailure"
      [] pc \in {"cleanup", "returned"} /\ result # EmptyMap -> "Success"
      [] pc \in {"cleanup", "returned"} /\ result = EmptyMap -> "IdleEmpty"
      [] OTHER -> "none"

(***************************************************************************)
(* C11: every call moves through Idle, Invoking, RetryableFailure and the  *)
(* terminal states Success and Idle(empty) only, and, every run and every  *)
(* sleep ending, it does not stop before it has returned in one of the two *)
(* terminal states: as long as it has not, it has a next step.             *)
(***************************************************************************)
C11_EndsInTerminalState ==
    /\ MachineState # "none"
    /\ (pc = "returned" /\ MachineState \in {"Success", "IdleEmpty"})
          \/ ENABLED Next

(***************************************************************************)
(* C12: an envelope whose error flag is set is handled like a non-zero     *)
(* exit, so the attempt that returned it never ends the call as a success  *)
(* with that envelope's payload as the result.                             *)
(***************************************************************************)
C12_ErrorEnvelopeIsNoSuccess ==
    (pc = "cleanup" /\ Envelope(response) /\ response.is_error) =>
        result = EmptyMap

(***************************************************************************)
(* C14: the deletion of the temp files is best effort and never raises:    *)
(* when os.remove fails for a file, the cleanup still calls os.remove for  *)
(* every other temp file of the call, in order, each file whose deletion   *)
(* did not fail is gone, and the call returns the value it was about to    *)
(* return, whichever deletions failed.                                     *)
(***************************************************************************)
C14_CleanupIsBestEffort ==
    [][ /\ pc = "cleanup" =>
              /\ pc' \in {"cleanup", "returned"}
              /\ result' = result
        /\ (pc = "cleanup" /\ pc' = "cleanup") =>
              /\ Len(removeAttempts) < Len(tempPaths)
              /\ LET path == tempPaths[Len(removeAttempts) + 1]
                 IN  /\ removeAttempts' = Append(removeAttempts, path)
                     /\ \/ /\ tempStorage' = tempStorage \ {path}
                           /\ removeFailed' = removeFailed
                        \/ /\ tempStorage' = tempStorage
                           /\ removeFailed' = removeFailed \cup {path}
        /\ (pc = "cleanup" /\ pc' = "returned") =>
              /\ removeAttempts = tempPaths
              /\ removeFailed \subseteq Range(tempPaths)
              /\ \A f \in Range(tempPaths) :
                    f \in tempStorage <=> f \in removeFailed
              /\ tempStorage' = tempStorage
      ]_vars

C14_Witness ==
    /\ pc = "returned"
    /\ Len(tempPaths) = 2
    /\ removeFailed = {tempPaths[1]}
    /\ removeAttempts = tempPaths
    /\ tempPaths[2] \notin tempStorage
    /\ result # EmptyMap

(***************************************************************************)
(* C15: the effective prompt is composed once per call and is the same for *)
(* every attempt: with n >= 1 images it lists exactly n image references,  *)
(* numbered 1..n in the order the images were given, the i-th naming the   *)
(* temp path of the i-th image, and ends with the caller's prompt; with no *)
(* image it is the caller's prompt as it is.                               *)
(***************************************************************************)
C15_PromptListsImagesInOrder ==
    [][ /\ pc' \in {"loop", "running", "sleeping", "cleanup", "returned"} =>
              LET refs == SelectSeq(fullPrompt', LAMBDA line : line[1] = "image")
              IN  /\ Len(tempPaths') = nImages
                  /\ Len(refs) = nImages
                  /\ \A i \in 1..nImages : refs[i] = <<"image", i, tempPaths'[i]>>
                  /\ SubSeq(fullPrompt', Len(fullPrompt') - Len(Prompt) + 1,
                            Len(fullPrompt')) = Prompt
                  /\ nImages = 0 => fullPrompt' = Prompt
                  /\ nImages > 0 =>
                        /\ Len(fullPrompt') = nImages + 2 + Len(Prompt)
                        /\ SubSeq(fullPrompt', 2, nImages + 1) = refs
        /\ pc \in {"loop", "running", "sleeping", "cleanup", "returned"} =>
              fullPrompt' = fullPrompt /\ tempPaths' = tempPaths
      ]_vars

C15_Witness ==
    /\ pc = "running"
    /\ tries = 2
    /\ nImages = 2
    /\ fullPrompt = << <<"header", 0, 0>>, <<"image", 1, tempPaths[1]>>,
                       <<"image", 2, tempPaths[2]>>, <<"blank", 0, 0>> >> \o Prompt

\* the temp paths a prompt refers to
ReferencedFiles(prompt) ==
    {prompt[i][3] : i \in {j \in 1..Len(prompt) : prompt[j][1] = "image"}}

(***************************************************************************)
(* C16: within a call no temp file is deleted before the last run of the   *)
(* call has ended: every file the effective prompt refers to is in temp    *)
(* storage whenever an attempt is due, under way or backed off from, and a *)
(* file leaves temp storage only in the cleanup after the loop.            *)
(***************************************************************************)
C16_NoDeletionBeforeLoopEnds ==
    [][ /\ pc' \in {"loop", "running", "sleeping"} =>
              /\ ReferencedFiles(fullPrompt') = created'
              /\ ReferencedFiles(fullPrompt') \subseteq tempStorage'
        /\ ~(tempStorage \subseteq tempStorage') =>
              /\ pc = "cleanup"
              /\ pc' \in {"cleanup", "returned"}
      ]_vars

C16_Witness ==
    /\ pc = "loop"
    /\ tries = 3
    /\ Len(sleeps) = 2
    /\ nImages = 2
    /\ ReferencedFiles(fullPrompt) = {tempPaths[1], tempPaths[2]}
    /\ ReferencedFiles(fullPrompt) \subseteq tempStorage

\* the sum of the numbers of a sequence
SumSeq(seq) ==
    LET Sum[i \in 0..Len(seq)] == IF i = 0 THEN 0 ELSE Sum[i - 1] + seq[i]
    IN  Sum[Len(seq)]

(***************************************************************************)
(* C17: the call sleeps only right after a run that timed out or exited    *)
(* with a rate-limit error on an attempt that is not the last, once per    *)
(* such attempt, so with maxRetries = n there are at most n sleeps, of at  *)
(* most retryWaitTime * n * (n + 1) / 2 in all; with maxRetries = 0 there  *)
(* is exactly one attempt and no sleep.                                    *)
(***************************************************************************)
C17_SleepsAreBounded ==
    [][ /\ sleeps' # sleeps =>
              /\ AttemptEnds
              /\ TimedOut(response') \/ RateLimitExit(response')
              /\ ~LastAttempt
              /\ pc' = "sleeping"
              /\ \E d \in 1..(retryWaitTime * maxRetries) : sleeps' = Append(sleeps, d)
        /\ pc' = "sleeping" => sleeps' # sleeps \/ pc = "sleeping"
        /\ Len(sleeps') <= maxRetries
        /\ Len(sleeps') <= invocations'
        /\ 2 * SumSeq(sleeps') <= retryWaitTime * maxRetries * (maxRetries + 1)
        /\ (maxRetries = 0 /\ pc' \in {"cleanup", "returned"}) =>
              invocations' = 1 /\ sleeps' = << >>
      ]_vars

(***************************************************************************)
(* C18: the usage of an attempt is forwarded before the payload of the     *)
(* attempt is returned, inside the guarded region: when the sink raises on *)
(* an attempt with a non-empty payload, the call makes no further attempt, *)
(* does not sleep, records no report and returns the empty mapping instead *)
(* of the payload; the sink is only called with a sink supplied and a      *)
(* positive usage sum.                                                     *)
(***************************************************************************)
C18_SinkFailureIsTerminal ==
    [][ /\ (AttemptEnds /\ PayloadEnvelope(response') /\ sinkRaised') =>
              /\ Leaves(EmptyMap)
              /\ pc' = "cleanup"
              /\ sink' = sink
        /\ Ended => Leaves(result) /\ sink' = sink
        /\ (sinkRaised' /\ ~sinkRaised) =>
              /\ AttemptEnds
              /\ Envelope(response')
              /\ hasBlock
              /\ SumOfCounters(response'.usage) > 0
      ]_vars

\* the files of the second call
OtherFiles == Range(otherPaths)

\* a step of the second call
OtherStep == other' # other

(***************************************************************************)
(* C13: with names that are unique per call, two calls running at once     *)
(* keep to their own temp files, however their steps interleave, the       *)
(* single os.remove calls of their cleanups included.  The two calls never *)
(* create the same file; the prompt of a call refers to the files of that  *)
(* call only; a file enters temp storage only when its own call saves it   *)
(* and leaves only by an os.remove of the cleanup of the call that created *)
(* it, so the files of a call that has not yet reached its cleanup are all *)
(* in temp storage whatever the other call does; and a step of the second  *)
(* call leaves the result, the attempt count and every other part of the   *)
(* first call as they were.                                                *)
(***************************************************************************)
C13_CallsKeepToTheirOwnFiles ==
    [][ /\ created' \cap OtherFiles' = {}
        /\ ReferencedFiles(fullPrompt') \subseteq created'
        /\ ReferencedFiles(fullPrompt') \cap OtherFiles' = {}
        /\ \A f \in tempStorage' \ tempStorage :
               \/ pc = "save" /\ f \in created' \ created /\ ~OtherStep
               \/ otherPc = "save" /\ f \in OtherFiles' \ OtherFiles /\ call' = call
        /\ \A f \in tempStorage \ tempStorage' :
               \/ /\ f \in created /\ f \notin OtherFiles
                  /\ pc = "cleanup" /\ ~OtherStep
               \/ /\ f \in OtherFiles /\ f \notin created
                  /\ otherPc = "cleanup" /\ call' = call
        /\ pc' \notin {"cleanup", "returned"} => created' \subseteq tempStorage'
        /\ otherPc' \notin {"cleanup", "returned"} => OtherFiles' \subseteq tempStorage'
        /\ OtherStep => call' = call
      ]_vars

\* the first call is in its cleanup and has removed the first of its two
\* files, the second call has saved its file and is in its retry loop
C13_Witness ==
    /\ pc = "cleanup"
    /\ Len(tempPaths) = 2
    /\ removeAttempts = <<tempPaths[1]>>
    /\ tempPaths[1] \notin tempStorage
    /\ otherPc = "busy"
    /\ OtherFiles # {}
    /\ tempStorage = {tempPaths[2]} \cup OtherFiles
    /\ OtherFiles \cap created = {}
    /\ ReferencedFiles(fullPrompt) = created

=============================================================================
